---- MODULE Spec2Model ----
(***************************************************************************)
(* Model of app.py (YouTube AI Analyst Pro): the Streamlit script main(),  *)
(* the hybrid fetch get_video_data(), the identifier extraction            *)
(* get_video_id() and the prompt construction of analyze_with_gemini().    *)
(* One action is one complete run of the script, triggered by one user     *)
(* event (page load, URL entry, logout click, analyze click).              *)
(***************************************************************************)
EXTENDS Integers, Sequences, FiniteSets, TLC

VARIABLES
    creds,        \* st.session_state.creds: 0 is None, n > 0 the n-th credentials object
    query_code,   \* st.query_params "code"
    video_url,    \* value of the "Video URL" text input
    stage,        \* where the last run of main() ended
    calls,        \* Data API, Analytics API and Gemini calls issued by the last run, in order
    video_data,   \* what get_video_data returned in the last run
    shown,        \* st.error / st.warning messages displayed by the last run
    report,       \* what analyze_with_gemini was given and returned in the last run
    request,      \* history: the responses the environment gave to the last run
    token,        \* history: outcome of the last run's fetch_token
    today,        \* the calendar date datetime.now() falls on
    issued,       \* history: number of credentials objects created so far
    revoked       \* history: credentials cleared by a logout click

vars == <<creds, query_code, video_url, stage, calls, video_data, shown, report,
          request, token, today, issued, revoked>>

----------------------------------------------------------------------------
(* Bounds of the model *)

\* Number of days after each anchor date that the clock and the publication date range over
DateSpan == 2

\* Number of successful token exchanges explored
MaxLogins == 2

----------------------------------------------------------------------------
(* Python values *)

\* Python None, for values that are otherwise records
None == [tag |-> "None"]

\* Python None for session_state.creds
NoCreds == 0

\* absent "code" query parameter (st.query_params.get returns None)
NoCode == "NoCode"

\* the empty text input
EmptyUrl == <<>>

----------------------------------------------------------------------------
(* get_video_id: re.search(r'(?:v=|\/)([0-9A-Za-z_-]{11}).*', url) *)

\* {11} of the pattern
IdLen == 11

\* [0-9A-Za-z_-] restricted to the characters the modelled URLs use
IdChars == {"a", "B", "3", "_", "-", "w", "v"}

\* the capture group ([0-9A-Za-z_-]{11}) matches at position p
GroupAt(url, p) ==
    /\ p + IdLen - 1 <= Len(url)
    /\ \A k \in p .. (p + IdLen - 1) : url[k] \in IdChars

\* the whole pattern matches starting at position i: returns the start of the group, 0 if none
MatchAt(url, i) ==
    IF i + 1 <= Len(url) /\ url[i] = "v" /\ url[i + 1] = "=" /\ GroupAt(url, i + 2)
    THEN i + 2
    ELSE IF url[i] = "/" /\ GroupAt(url, i + 1)
    THEN i + 1
    ELSE 0

\* re.search: leftmost match; group(1), or None (modelled as the empty sequence)
get_video_id(url) ==
    LET hits == {i \in 1 .. Len(url) : MatchAt(url, i) # 0}
    IN IF hits = {} THEN <<>>
       ELSE LET i == CHOOSE j \in hits : \A k \in hits : j <= k
                p == MatchAt(url, i)
            IN SubSeq(url, p, p + IdLen - 1)

\* an 11-character identifier
Id1 == <<"a", "B", "3", "_", "-", "a", "B", "3", "_", "-", "a">>

\* another one
Id2 == <<"w", "v", "3", "_", "-", "a", "B", "3", "_", "-", "w">>

\* query-parameter form ".../w?v=<id>&t"
UrlQuery == <<"/", "w", "?", "v", "=">> \o Id1 \o <<"&", "t">>

\* path-segment form "y.b/<id>"
UrlPath == <<"y", ".", "b", "/">> \o Id2

\* a token of only 10 characters: no match
UrlShort == <<"/", "w", "?", "v", "=">> \o SubSeq(Id1, 1, IdLen - 1)

\* no "v=" and no "/" marker: no match
UrlNoMarker == <<"?">> \o Id1

\* strings the user may type into the text input
Urls == {UrlQuery, UrlPath, UrlShort, UrlNoMarker}

----------------------------------------------------------------------------
(* Dates: datetime.now(), timedelta(days=1), strftime('%Y-%m-%d'), publishedAt *)

\* calendar: a date is <<year, month, day>>
IsLeap(y) == (y % 4 = 0 /\ y % 100 # 0) \/ y % 400 = 0

DaysInMonth(y, m) ==
    IF m = 2 THEN (IF IsLeap(y) THEN 29 ELSE 28)
    ELSE IF m \in {4, 6, 9, 11} THEN 30 ELSE 31

\* d - timedelta(days=1)
MinusOneDay(d) ==
    IF d[3] > 1 THEN <<d[1], d[2], d[3] - 1>>
    ELSE IF d[2] > 1 THEN <<d[1], d[2] - 1, DaysInMonth(d[1], d[2] - 1)>>
    ELSE <<d[1] - 1, 12, 31>>

\* the calendar day after d (the clock of the environment)
PlusOneDay(d) ==
    IF d[3] < DaysInMonth(d[1], d[2]) THEN <<d[1], d[2], d[3] + 1>>
    ELSE IF d[2] < 12 THEN <<d[1], d[2] + 1, 1>>
    ELSE <<d[1] + 1, 1, 1>>

RECURSIVE PlusDays(_, _)
PlusDays(d, n) == IF n = 0 THEN d ELSE PlusDays(PlusOneDay(d), n - 1)

\* chronological order on calendar dates
DateLE(a, b) ==
    \/ a[1] < b[1]
    \/ a[1] = b[1] /\ a[2] < b[2]
    \/ a[1] = b[1] /\ a[2] = b[2] /\ a[3] <= b[3]

\* a string is a sequence of code points; n as `width` zero-padded decimal digits
RECURSIVE Digits(_, _)
Digits(n, width) ==
    IF width = 0 THEN <<>> ELSE Digits(n \div 10, width - 1) \o <<48 + (n % 10)>>

\* strftime('%Y-%m-%d'): "YYYY-MM-DD", 45 is "-"
strftime(d) == Digits(d[1], 4) \o <<45>> \o Digits(d[2], 2) \o <<45>> \o Digits(d[3], 2)

\* snippet.publishedAt of a video published on d: ISO 8601, "YYYY-MM-DDT09:30:00Z"
publishedAt(d) == strftime(d) \o <<84, 48, 57, 58, 51, 48, 58, 48, 48, 90>>

\* Python's > on str: lexicographic by code point, a proper prefix is smaller
RECURSIVE StrGT(_, _)
StrGT(a, b) ==
    IF a = <<>> THEN FALSE
    ELSE IF b = <<>> THEN TRUE
    ELSE IF Head(a) # Head(b) THEN Head(a) > Head(b)
    ELSE StrGT(Tail(a), Tail(b))

\* variant of EndDate without the adjustment of lines 91-92
EndDate_NoClamp(start_date, now) == strftime(MinusOneDay(now))

\* lines 88-92: end_date is yesterday, or start_date when that is later
EndDate(start_date, now) ==
    LET end_date == strftime(MinusOneDay(now))
    IN IF StrGT(start_date, end_date) THEN start_date ELSE end_date

\* the text stored in analysis_period by the except branch (line 136), as code points
NoDataPeriod == <<45936, 51060, 53552, 32, 50630, 51020>>

\* f"{start_date} ~ {end_date}"
PeriodText(start_date, end_date) == start_date \o <<32, 126, 32>> \o end_date

\* days the clock and the publication dates range over: around a year end and a leap day
AnchorDates == {<<2023, 12, 30>>, <<2024, 2, 28>>}

Dates == {PlusDays(a, n) : a \in AnchorDates, n \in 0 .. DateSpan}

----------------------------------------------------------------------------
(* Responses of the remote services (inputs of a run) *)

\* int() of a decimal string
RECURSIVE int(_)
int(str) == IF str = <<>> THEN 0 ELSE 10 * int(SubSeq(str, 1, Len(str) - 1)) + (str[Len(str)] - 48)

\* item['statistics'] of videos().list: counters are decimal strings ("1000", "5", "2");
\* viewCount may be missing
Statistics ==
    { [viewCount |-> <<49, 48, 48, 48>>, likeCount |-> <<53>>, commentCount |-> <<50>>],
      [likeCount |-> <<53>>, commentCount |-> <<50>>] }

\* the day a video was published: fixed once and for all for a given video
PublishedOn(video_id) == IF video_id = Id1 THEN <<2023, 12, 31>> ELSE <<2024, 2, 29>>

\* video_response['items'][0] for a video
Items(video_id) ==
    { [snippet |-> [title |-> "title", publishedAt |-> publishedAt(PublishedOn(video_id)),
                    channelTitle |-> "channel", thumbnail |-> "thumb"],
       statistics |-> st] : st \in Statistics }

\* the call raised (HttpError, transport error)
Raised == [kind |-> "raise"]

\* videos().list(...).execute(): raises, or returns a body whose items is empty or holds the item
MetaResponses(video_id) ==
    {Raised} \cup {[kind |-> "ok", items |-> <<>>]}
    \cup {[kind |-> "ok", items |-> <<it>>] : it \in Items(video_id)}

\* a report body: "rows" may be missing from the body
Body(has_rows, rows) == [kind |-> "ok", has_rows |-> has_rows, rows |-> rows]

\* rows[0] of the main report: [views, estimatedMinutesWatched, averageViewDuration];
\* the last one is a row with fewer columns than requested
MainRows ==
    { <<0, 0, 0>>, <<50, 0, 0>>, <<0, 30, 36>>, <<50, 30, 36>>, <<900, 30, 36>>, <<50>> }

\* reports().query(metrics='views,estimatedMinutesWatched,averageViewDuration').execute()
MainResponses ==
    {Raised, Body(FALSE, <<>>)} \cup {Body(TRUE, <<r>>) : r \in MainRows}

\* reports().query(dimensions='insightTrafficSourceType').execute()
TrafficResponses ==
    {Raised, Body(FALSE, <<>>), Body(TRUE, << <<"YT_SEARCH", 40>> >>)}

\* the second query is not issued when the first one raised
NotCalled == [kind |-> "not called"]

\* dict.get('rows'): None (falsy, modelled as the empty list) when the key is missing
GetRows(body) == IF body.has_rows THEN body.rows ELSE <<>>

----------------------------------------------------------------------------
(* get_video_data *)

\* the record of a call to a remote service
Call(api, cr, id, start_date, end_date) ==
    [api |-> api, creds |-> cr, id |-> id, startDate |-> start_date, endDate |-> end_date]

\* parsing analytics_main raises (row[1], row[2] of a short row)
ParseRaises(main) == GetRows(main) # <<>> /\ Len(GetRows(main)[1]) < 3

\* what makes the try block of lines 94-127 leave through the except branch
AnalyticsRaises(main, traffic) ==
    main.kind = "raise" \/ traffic.kind = "raise" \/ ParseRaises(main)

\* lines 131-136: the defaults stored by the except branch
ExceptDefaults ==
    [analytics_views |-> 0, watch_time_min |-> 0, avg_duration_sec |-> 0,
     traffic_sources |-> <<>>, analysis_period |-> NoDataPeriod]

\* variant of AnalyticsFields: the traffic query fails on its own, the main values are kept
AnalyticsFields_SeparateTry(main, traffic, start_date, end_date) ==
    IF main.kind = "raise" \/ ParseRaises(main) THEN ExceptDefaults
    ELSE LET rows == GetRows(main)
             ok == traffic.kind # "raise"
         IN [analytics_views |-> IF rows # <<>> THEN rows[1][1] ELSE 0,
             watch_time_min |-> IF rows # <<>> THEN rows[1][2] ELSE 0,
             avg_duration_sec |-> IF rows # <<>> THEN rows[1][3] ELSE 0,
             traffic_sources |-> IF ok THEN GetRows(traffic) ELSE <<>>,
             analysis_period |-> IF ok THEN PeriodText(start_date, end_date) ELSE NoDataPeriod]

\* lines 94-136: the behavioural fields of video_info after the try / except
AnalyticsFields(main, traffic, start_date, end_date) ==
    IF AnalyticsRaises(main, traffic) THEN ExceptDefaults
    ELSE LET rows == GetRows(main)
         IN [analytics_views |-> IF rows # <<>> THEN rows[1][1] ELSE 0,
             watch_time_min |-> IF rows # <<>> THEN rows[1][2] ELSE 0,
             avg_duration_sec |-> IF rows # <<>> THEN rows[1][3] ELSE 0,
             traffic_sources |-> GetRows(traffic),
             analysis_period |-> PeriodText(start_date, end_date)]

\* variant of AnalyticsCalls: a failed main query is issued a second time
AnalyticsCalls_Retry(cr, id, main, start_date, end_date) ==
    LET q == Call("reports.query.main", cr, id, start_date, end_date)
    IN IF main.kind = "raise" THEN <<q, q>>
       ELSE <<q, Call("reports.query.traffic", cr, id, start_date, end_date)>>

\* lines 96-113: the queries issued, the second only when the first returned
AnalyticsCalls(cr, id, main, start_date, end_date) ==
    LET q == Call("reports.query.main", cr, id, start_date, end_date)
    IN IF main.kind = "raise" THEN <<q>>
       ELSE <<q, Call("reports.query.traffic", cr, id, start_date, end_date)>>

\* line 61, `not video_response['items']`
ItemsMissing(meta) == meta.items = <<>>

\* lines 46-138. env: [now, meta, main, traffic]. Returns how the call ended
\* ("raised" | "returned"), the value returned, the calls issued and the st.error shown.
get_video_data(cr, video_id, env) ==
    LET list == Call("videos.list", cr, video_id, <<>>, <<>>)
    IN IF env.meta.kind = "raise"
       THEN [ended |-> "raised", data |-> None, calls |-> <<list>>, errors |-> {}]
       ELSE IF ItemsMissing(env.meta)
       THEN [ended |-> "returned", data |-> None, calls |-> <<list>>, errors |-> {}]
       ELSE LET item == env.meta.items[1]
                snippet == item.snippet
                stats == item.statistics
                start_date == SubSeq(snippet.publishedAt, 1, 10)
                end_date == EndDate(start_date, env.now)
                f == AnalyticsFields(env.main, env.traffic, start_date, end_date)
            IN [ended |-> "returned",
                data |-> [tag |-> "video_info",
                          id |-> video_id,
                          title |-> snippet.title,
                          published_at |-> snippet.publishedAt,
                          publish_date |-> start_date,
                          channel_title |-> snippet.channelTitle,
                          thumbnail |-> snippet.thumbnail,
                          view_count |-> IF "viewCount" \in DOMAIN stats
                                         THEN int(stats.viewCount) ELSE 0,
                          like_count |-> IF "likeCount" \in DOMAIN stats
                                         THEN int(stats.likeCount) ELSE 0,
                          comment_count |-> IF "commentCount" \in DOMAIN stats
                                            THEN int(stats.commentCount) ELSE 0,
                          analytics_views |-> f.analytics_views,
                          watch_time_min |-> f.watch_time_min,
                          avg_duration_sec |-> f.avg_duration_sec,
                          traffic_sources |-> f.traffic_sources,
                          analysis_period |-> f.analysis_period],
                calls |-> <<list>> \o AnalyticsCalls(cr, video_id, env.main, start_date, end_date),
                errors |-> IF AnalyticsRaises(env.main, env.traffic)
                           THEN {"analytics_error"} ELSE {}]

----------------------------------------------------------------------------
(* analyze_with_gemini *)

\* view_context of line 150, the note on the aggregation delay of the detailed statistics
AggregationDelayNote == "aggregation delay note"

\* variant of ViewContext that does not look at the public view count
ViewContext_AnyViewCount(data) ==
    IF data.watch_time_min = 0 THEN AggregationDelayNote ELSE ""

\* lines 148-150
ViewContext(data) ==
    IF data.view_count > 0 /\ data.watch_time_min = 0 THEN AggregationDelayNote ELSE ""

\* lines 152-180: the values the f-string puts into the prompt
Prompt(data) ==
    [title |-> data.title,
     publish_date |-> data.publish_date,
     view_count |-> data.view_count,
     watch_time_min |-> data.watch_time_min,
     view_context |-> ViewContext(data),
     avg_duration_sec |-> data.avg_duration_sec,
     like_count |-> data.like_count,
     comment_count |-> data.comment_count,
     traffic_sources |-> data.traffic_sources]

\* lines 143-187: generate_content returns the report or raises, which is turned into a text
analyze_with_gemini(data, gen_ok) ==
    [tag |-> "analysis",
     prompt |-> Prompt(data),
     text |-> IF gen_ok THEN "report" ELSE "generator error text"]

----------------------------------------------------------------------------
(* main *)

\* line 302: the condition of the st.warning on statistics still being aggregated
ShowAggregationWarning(data) == data.view_count > 0 /\ data.analytics_views = 0

\* variant of NeedsLogin: the login screen is never shown
NeedsLogin_Never(cr) == FALSE

\* line 211, `not st.session_state.creds`
NeedsLogin(cr) == cr = NoCreds

\* variant of InvalidReference: the identifier is not checked
InvalidReference_Never(video_id) == FALSE

\* line 232, `not video_id`
InvalidReference(video_id) == video_id = <<>>

\* what a run of main() leaves behind
Page(cr, code, url, st, cs, data, msgs, rep, tok, iss) ==
    [creds |-> cr, code |-> code, url |-> url, stage |-> st, calls |-> cs,
     video_data |-> data, shown |-> msgs, report |-> rep, token |-> tok, issued |-> iss]

\* lines 201-208: the OAuth callback. tok_ok: fetch_token returns (TRUE) or raises (FALSE)
AuthStep(cr, code, tok_ok, iss) ==
    IF code = NoCode THEN [creds |-> cr, code |-> code, token |-> "none", issued |-> iss]
    ELSE IF tok_ok THEN [creds |-> iss + 1, code |-> NoCode, token |-> "ok", issued |-> iss + 1]
    ELSE [creds |-> cr, code |-> code, token |-> "failed", issued |-> iss]

\* lines 227-313: the analysis screen. Returns stage, calls, video_data, shown, report.
AnalysisScreen(cr, url, analyze_clicked, env) ==
    IF url = EmptyUrl
    THEN [stage |-> "idle", calls |-> <<>>, video_data |-> None, shown |-> {}, report |-> None]
    ELSE LET video_id == get_video_id(url)
         IN IF InvalidReference(video_id)
            THEN [stage |-> "invalid_reference", calls |-> <<>>, video_data |-> None,
                  shown |-> {"invalid_url"}, report |-> None]
            ELSE IF ~analyze_clicked
            THEN [stage |-> "ready", calls |-> <<>>, video_data |-> None,
                  shown |-> {}, report |-> None]
            ELSE LET r == get_video_data(cr, video_id, env)
                 IN IF r.ended = "raised"
                    THEN [stage |-> "system_error", calls |-> r.calls, video_data |-> None,
                          shown |-> {"system_error"}, report |-> None]
                    ELSE IF r.data = None
                    THEN [stage |-> "not_found", calls |-> r.calls, video_data |-> None,
                          shown |-> {"not_found"}, report |-> None]
                    ELSE [stage |-> "reported",
                          calls |-> r.calls \o
                                    <<Call("generate_content", NoCreds, video_id, <<>>, <<>>)>>,
                          video_data |-> r.data,
                          shown |-> r.errors \cup
                                    (IF ShowAggregationWarning(r.data)
                                     THEN {"aggregation_warning"} ELSE {}),
                          report |-> analyze_with_gemini(r.data, env.gen_ok)]

\* lines 192-313: one run of the script. click: "none" | "logout" | "analyze".
\* st.rerun() after a logout runs the script again with no button clicked; a text input
\* that is not rendered (login screen) loses its value.
RECURSIVE main(_, _, _, _, _, _)
main(cr0, code0, url, click, env, iss0) ==
    LET a == AuthStep(cr0, code0, env.tok_ok, iss0)
        login_error == IF a.token = "failed" THEN {"login_error"} ELSE {}
    IN IF NeedsLogin(a.creds)
       THEN Page(a.creds, a.code, EmptyUrl, "login", <<>>, None, login_error, None,
                 a.token, a.issued)
       ELSE IF click = "logout"
       THEN main(NoCreds, a.code, url, "none", [env EXCEPT !.tok_ok = env.tok_ok2], a.issued)
       ELSE LET s == AnalysisScreen(a.creds, url, click = "analyze", env)
            IN Page(a.creds, a.code, url, s.stage, s.calls, s.video_data,
                    s.shown \cup login_error, s.report, a.token, a.issued)

----------------------------------------------------------------------------
(* Inputs of a run *)

\* the environment of one run
Env(tok_ok, tok_ok2, now, meta, mainq, traffic, gen_ok) ==
    [tok_ok |-> tok_ok, tok_ok2 |-> tok_ok2, now |-> now, meta |-> meta,
     main |-> mainq, traffic |-> traffic, gen_ok |-> gen_ok]

\* a run that calls no service but, possibly, the token endpoint
QuietEnv(tok_ok, tok_ok2, now) ==
    Env(tok_ok, tok_ok2, now, NotCalled, NotCalled, NotCalled, FALSE)

\* the environments of a run that fetches: only the responses the run consumes vary
FetchEnvs(video_id, now) ==
    {Env(FALSE, FALSE, now, m, NotCalled, NotCalled, FALSE) :
        m \in {Raised, [kind |-> "ok", items |-> <<>>]}}
    \cup {Env(FALSE, FALSE, now, [kind |-> "ok", items |-> <<it>>], Raised, NotCalled, g) :
            it \in Items(video_id), g \in BOOLEAN}
    \cup {Env(FALSE, FALSE, now, [kind |-> "ok", items |-> <<it>>], q, t, g) :
            it \in Items(video_id), q \in MainResponses \ {Raised},
            t \in TrafficResponses, g \in BOOLEAN}

\* the outcomes of fetch_token a run can see: none is consulted without a code, and
\* no more than MaxLogins exchanges succeed
TokenOutcomes(code, iss) ==
    IF code = NoCode THEN {FALSE} ELSE IF iss < MaxLogins THEN BOOLEAN ELSE {FALSE}

----------------------------------------------------------------------------
(* The session *)

\* the next state is what the run left behind
Becomes(p, env) ==
    /\ creds' = p.creds
    /\ query_code' = p.code
    /\ video_url' = p.url
    /\ stage' = p.stage
    /\ calls' = p.calls
    /\ video_data' = p.video_data
    /\ shown' = p.shown
    /\ report' = p.report
    /\ token' = p.token
    /\ issued' = p.issued
    /\ request' = env

\* lines 196-198: a new browser session, before its first run
Init ==
    /\ creds = NoCreds
    /\ query_code = NoCode
    /\ video_url = EmptyUrl
    /\ stage = "start"
    /\ calls = <<>>
    /\ video_data = None
    /\ shown = {}
    /\ report = None
    /\ today \in AnchorDates
    /\ request = QuietEnv(FALSE, FALSE, today)
    /\ token = "none"
    /\ issued = 0
    /\ revoked = {}

\* the page is loaded in a new browser session, plainly or as the OAuth redirect with a code
PageLoad ==
    \E code \in {NoCode, "code"} :
        \E tok_ok \in TokenOutcomes(code, issued) :
            LET env == QuietEnv(tok_ok, FALSE, today)
            IN /\ Becomes(main(NoCreds, code, EmptyUrl, "none", env, issued), env)
               /\ UNCHANGED <<revoked, today>>

\* the analysis screen is on the page: sidebar, text input
AnalysisScreenShown == stage \in {"idle", "invalid_reference", "ready", "not_found",
                                  "system_error", "reported"}

\* the user changes the text input
EnterUrl ==
    /\ AnalysisScreenShown
    /\ \E url \in (Urls \cup {EmptyUrl}) \ {video_url} :
         \E tok_ok \in TokenOutcomes(query_code, issued) :
            LET env == QuietEnv(tok_ok, FALSE, today)
            IN Becomes(main(creds, query_code, url, "none", env, issued), env)
    /\ UNCHANGED <<revoked, today>>

\* the user clicks the logout button of the sidebar
ClickLogout ==
    /\ AnalysisScreenShown
    /\ \E tok_ok \in TokenOutcomes(query_code, issued) :
         \E tok_ok2 \in TokenOutcomes(query_code, issued) :
            LET env == QuietEnv(tok_ok, tok_ok2, today)
            IN Becomes(main(creds, query_code, video_url, "logout", env, issued), env)
    /\ revoked' = revoked \cup {creds}
    /\ UNCHANGED today

\* the user clicks the analyze button, which line 236 renders for a valid URL
ClickAnalyze ==
    /\ stage \in {"ready", "not_found", "system_error", "reported"}
    /\ \E env \in FetchEnvs(get_video_id(video_url), today) :
         Becomes(main(creds, query_code, video_url, "analyze", env, issued), env)
    /\ UNCHANGED <<revoked, today>>

\* midnight passes; nothing runs, the page stays as it is
Midnight ==
    /\ PlusOneDay(today) \in Dates
    /\ today' = PlusOneDay(today)
    /\ UNCHANGED <<creds, query_code, video_url, stage, calls, video_data, shown, report,
                   request, token, issued, revoked>>

Next == PageLoad \/ EnterUrl \/ ClickLogout \/ ClickAnalyze \/ Midnight

Spec == Init /\ [][Next]_vars

----------------------------------------------------------------------------
(* Ownership resolution of the reconciliation engine (section 4.3 of the specification) *)

\* the tagged behavioural outcome a record stands for
OutcomeOf(data) ==
    IF data.analysis_period = NoDataPeriod THEN "Denied"
    ELSE IF data.analytics_views = 0 /\ data.watch_time_min = 0 /\ data.avg_duration_sec = 0
    THEN "Empty" ELSE "Populated"

\* the caller identity lookup failed
UnknownCaller == "unknown caller"

\* callers: unknown, the owning identity of the modelled videos, another identity
Callers == {UnknownCaller, "channel", "other channel"}

\* variant of OwnershipState: ownership inferred from the identifier comparison alone
OwnershipState_ByIdentity(outcome, caller, owning_identity) ==
    IF caller = owning_identity THEN "CONFIRMED"
    ELSE IF outcome = "Denied" THEN (IF caller # UnknownCaller THEN "MISMATCH" ELSE "UNKNOWN")
    ELSE "CONFIRMED"

\* ownership_state of reconcile
OwnershipState(outcome, caller, owning_identity) ==
    IF outcome = "Denied"
    THEN (IF caller # UnknownCaller /\ caller # owning_identity THEN "MISMATCH" ELSE "UNKNOWN")
    ELSE "CONFIRMED"

----------------------------------------------------------------------------
(* Properties *)

\* the last run built a record and handed it to the report generator
Reported == stage = "reported"

\* rows of the main report the last run received
ReceivedRows ==
    IF request.main.kind = "ok" /\ request.main.has_rows THEN request.main.rows ELSE <<>>

\* the behavioural fetch of the last run was denied: a query raised, or a row could not be parsed
BehavioralDenied ==
    /\ Reported
    /\ \/ request.main.kind = "raise"
       \/ request.traffic.kind = "raise"
       \/ (ReceivedRows # <<>> /\ Len(ReceivedRows[1]) < 3)

\* the behavioural fetch of the last run succeeded with zero rows
BehavioralEmpty == Reported /\ ~BehavioralDenied /\ ReceivedRows = <<>>

\* the behavioural fetch of the last run succeeded with a row
BehavioralPopulated == Reported /\ ~BehavioralDenied /\ ReceivedRows # <<>>

\* the record the last run would have built had both queries returned zero rows
EmptyTwin ==
    get_video_data(creds, video_data.id,
                   [request EXCEPT !.main = Body(FALSE, <<>>),
                                   !.traffic = Body(FALSE, <<>>)]).data

\* C1: a Denied behavioural fetch is never narrated like an Empty one: the report generator
\* is not given the input it would get for zero rows, and the user is not shown the
\* warning that the statistics are still being aggregated.
C1_DeniedNotNarratedAsEmpty ==
    BehavioralDenied =>
        /\ report.prompt # Prompt(EmptyTwin)
        /\ "aggregation_warning" \notin shown

\* C2: a Populated outcome with watched minutes > 0 and an aggregated view count that has
\* started to land but is below 10% of the public view count (1000 public views, 50
\* aggregated, 30 minutes) is treated as aggregating: the report generator is given the
\* aggregation-delay context.
C2_EarlyStageIsAggregating ==
    (/\ BehavioralPopulated
     /\ ReceivedRows[1][2] > 0
     /\ ReceivedRows[1][1] > 0
     /\ 10 * ReceivedRows[1][1] < video_data.view_count)
    => report.prompt.view_context = AggregationDelayNote

QueryCalls == {i \in 1 .. Len(calls) : calls[i].api \in {"reports.query.main",
                                                        "reports.query.traffic"}}

\* the end of the window by calendar arithmetic: yesterday, or the publication day if later
ExpectedEnd(pub, now) == IF DateLE(pub, MinusOneDay(now)) THEN MinusOneDay(now) ELSE pub

\* C4: the window of every behavioural query starts on the publication date and does not
\* end before it starts; it ends yesterday when the video was published on or before
\* yesterday, and on the publication date when it was published today or later.
C4_WindowNotInverted ==
    \A i \in QueryCalls :
        LET pub == PublishedOn(calls[i].id)
            now == request.now
        IN /\ calls[i].startDate = strftime(pub)
           /\ calls[i].endDate = strftime(ExpectedEnd(pub, now))
           /\ DateLE(pub, ExpectedEnd(pub, now))
           /\ DateLE(pub, MinusOneDay(now)) => calls[i].endDate = strftime(MinusOneDay(now))
           /\ DateLE(now, pub) => calls[i].endDate = calls[i].startDate

\* C4 witness: a query for a video published on the day of the run
C4_Witness ==
    /\ QueryCalls # {}
    /\ \E i \in QueryCalls :
          /\ PublishedOn(calls[i].id) = request.now
          /\ calls[i].endDate = calls[i].startDate

\* the keys of a complete record
RecordKeys ==
    {"tag", "id", "title", "published_at", "publish_date", "channel_title", "thumbnail",
     "view_count", "like_count", "comment_count", "analytics_views", "watch_time_min",
     "avg_duration_sec", "traffic_sources", "analysis_period"}

\* the metadata call of the last run returned a body
MetadataReturned == request.meta.kind = "ok"

\* C5: once the metadata call returned an item, the run has a complete record, whatever
\* the behavioural queries did: a failure leaves zero-filled behavioural fields, and no
\* query is issued twice; no record results exactly when the metadata holds no item.
C5_RecordAlwaysBuilt ==
    MetadataReturned =>
        /\ (request.meta.items = <<>>) <=> (video_data = None)
        /\ (request.meta.items = <<>>) <=> (stage = "not_found")
        /\ request.meta.items # <<>> =>
              /\ Reported
              /\ DOMAIN video_data = RecordKeys
              /\ BehavioralDenied =>
                    /\ video_data.analytics_views = 0
                    /\ video_data.watch_time_min = 0
                    /\ video_data.avg_duration_sec = 0
                    /\ video_data.traffic_sources = <<>>
                    /\ "analytics_error" \in shown
              /\ \A i, j \in QueryCalls : calls[i].api = calls[j].api => i = j

\* C5 witness: the main query raised and the run still reported a zero-filled record
C5_Witness ==
    /\ BehavioralDenied
    /\ request.main.kind = "raise"
    /\ video_data.watch_time_min = 0
    /\ Len(calls) = 3

\* C6: when the behavioural fetch was denied, the input of the report generator holds no
\* watched-minutes value and none of the other behavioural fields.
C6_DeniedPromptOmitsBehavioral ==
    BehavioralDenied =>
        DOMAIN report.prompt \cap {"watch_time_min", "avg_duration_sec", "traffic_sources"} = {}

\* C7: the stages of a run go forward: calls only with an identifier extracted from the
\* reference, the metadata call first, behavioural queries only after it returned an item,
\* the generator last and only with a record; an invalid reference leads to no call, a
\* missing resource to the metadata call alone.
C7_StagesForward ==
    /\ calls # <<>> =>
          /\ get_video_id(video_url) # <<>>
          /\ calls[1].api = "videos.list"
          /\ \A i \in 1 .. Len(calls) : calls[i].id = get_video_id(video_url)
    /\ \A i \in 2 .. Len(calls) : calls[i].api # "videos.list"
    /\ \A i \in QueryCalls :
          /\ i > 1
          /\ MetadataReturned /\ request.meta.items # <<>>
    /\ \A i \in 1 .. Len(calls) :
          calls[i].api = "generate_content" =>
              /\ i = Len(calls)
              /\ video_data # None
              /\ \E j \in QueryCalls : j < i
    /\ stage = "invalid_reference" => calls = <<>> /\ "invalid_url" \in shown
    /\ stage = "not_found" => Len(calls) = 1 /\ report = None
    /\ stage = "system_error" => Len(calls) = 1 /\ report = None

\* C7 witness: a complete run: metadata, two queries, generator
C7_Witness ==
    /\ Reported
    /\ Len(calls) = 4
    /\ calls[4].api = "generate_content"

\* C8: with a denied behavioural fetch the ownership state is never CONFIRMED, whoever the
\* caller is: MISMATCH for a known caller who differs from the owning identity, UNKNOWN
\* otherwise, also when the identities are equal.
C8_DeniedNeverConfirmed ==
    BehavioralDenied =>
        \A caller \in Callers :
            LET own == OwnershipState(OutcomeOf(video_data), caller, video_data.channel_title)
            IN /\ own # "CONFIRMED"
               /\ own = IF caller # UnknownCaller /\ caller # video_data.channel_title
                        THEN "MISMATCH" ELSE "UNKNOWN"

\* C8 witness: a denied fetch for a caller whose identity equals the owning identity
C8_Witness ==
    /\ BehavioralDenied
    /\ video_data.channel_title \in Callers
    /\ OwnershipState(OutcomeOf(video_data), video_data.channel_title,
                      video_data.channel_title) = "UNKNOWN"

\* C9: the behavioural fields are all-or-nothing: after a failure anywhere in the
\* behavioural step they are all the defaults and the period is the no-data text;
\* otherwise they are what the two reports held and the period is the window.
C9_AllOrNothing ==
    Reported =>
        /\ BehavioralDenied =>
              /\ video_data.analytics_views = 0
              /\ video_data.watch_time_min = 0
              /\ video_data.avg_duration_sec = 0
              /\ video_data.traffic_sources = <<>>
              /\ video_data.analysis_period = NoDataPeriod
        /\ ~BehavioralDenied =>
              /\ video_data.analysis_period =
                    PeriodText(video_data.publish_date, calls[2].endDate)
              /\ video_data.traffic_sources =
                    (IF request.traffic.has_rows THEN request.traffic.rows ELSE <<>>)
              /\ ReceivedRows # <<>> =>
                    /\ video_data.analytics_views = ReceivedRows[1][1]
                    /\ video_data.watch_time_min = ReceivedRows[1][2]
                    /\ video_data.avg_duration_sec = ReceivedRows[1][3]
              /\ ReceivedRows = <<>> =>
                    /\ video_data.analytics_views = 0
                    /\ video_data.watch_time_min = 0
                    /\ video_data.avg_duration_sec = 0
        /\ video_data.analysis_period # NoDataPeriod =>
              request.main.kind = "ok" /\ request.traffic.kind = "ok"

\* C9 witness: the main query returned non-zero values and the traffic query raised
C9_Witness ==
    /\ Reported
    /\ ReceivedRows # <<>>
    /\ Len(ReceivedRows[1]) = 3
    /\ ReceivedRows[1][1] > 0
    /\ request.traffic.kind = "raise"
    /\ video_data.analytics_views = 0
    /\ video_data.analysis_period = NoDataPeriod

\* C10: a run issues calls only while the session holds a credential, which was created
\* by a successful token exchange and has not been cleared by a logout; every fetch
\* carries that credential.
C10_NoFetchWithoutLogin ==
    /\ creds # NoCreds => creds \in 1 .. issued
    /\ calls # <<>> =>
          /\ creds # NoCreds
          /\ creds \notin revoked
          /\ \A i \in 1 .. Len(calls) :
                calls[i].api # "generate_content" => calls[i].creds = creds

\* C10 witness: a fetch after a logout and a second login
C10_Witness ==
    /\ calls # <<>>
    /\ revoked # {}
    /\ creds \notin revoked
    /\ creds = 2

====
